---- MODULE Spec2Model ----
(***************************************************************************)
(* Model of packages/collectxyz/src/nft.rs: the coordinate geometry, the   *)
(* move fee / duration formulas of Config, the conversions of the extended *)
(* ExecuteMsg / QueryMsg vocabularies into the cw721-base vocabularies,    *)
(* and the mint / move lifecycle of a token's XyzExtension.                *)
(*                                                                         *)
(* Integer widths are kept, scaled down so that the model checker can      *)
(* enumerate them: i64 is a signed I64Bits-bit integer, u16 / u64 / u128   *)
(* are unsigned U16Bits / U64Bits / U128Bits-bit integers, with            *)
(* U16Bits < I64Bits - 1 and U16Bits < U64Bits < U128Bits as in the source.*)
(* Rust's +, -, * and abs on primitive integers panic on overflow when the *)
(* crate is built with overflow checks and wrap modulo 2^w when it is not; *)
(* the build profile is the variable overflow_checks.                      *)
(***************************************************************************)
EXTENDS Integers, Sequences, FiniteSets, TLC

VARIABLES
    config,           \* the Config in force
    overflow_checks,  \* TRUE: arithmetic overflow panics; FALSE: it wraps
    call,             \* the last call of a Config / Coordinates method and its result
    exec_msg,         \* the last ExecuteMsg handed to From<ExecuteMsg>
    exec_out,         \* its conversion's outcome
    query_msg,        \* the last QueryMsg handed to From<QueryMsg>
    query_out,        \* its conversion's outcome
    tokens,           \* token_id -> [owner, extension: XyzExtension]
    now,              \* the block time supplied by the host
    response          \* the last Mint / Move command and its outcome

vars == <<config, overflow_checks, call, exec_msg, exec_out, query_msg,
          query_out, tokens, now, response>>

---------------------------------------------------------------------------
(* Integer widths (scaled) *)

I64Bits == 8
U16Bits == 5
U64Bits == 12
U128Bits == 13

Pow2(n) == 2 ^ n

I64Max == Pow2(I64Bits - 1) - 1
I64Min == -Pow2(I64Bits - 1)
U16Max == Pow2(U16Bits) - 1
U64Max == Pow2(U64Bits) - 1
U128Max == Pow2(U128Bits) - 1

Ok(v) == [kind |-> "ok", val |-> v, denom |-> ""]
Panic == [kind |-> "panic", val |-> 0, denom |-> ""]
Err == [kind |-> "err", val |-> 0, denom |-> ""]
NoResult == [kind |-> "none", val |-> 0, denom |-> ""]

\* A primitive signed operation whose exact result is v: the value when it
\* fits, else a panic (overflow checks) or the two's-complement wrap.
I64Op(v, oc) ==
    IF v >= I64Min /\ v <= I64Max THEN Ok(v)
    ELSE IF oc THEN Panic
    ELSE Ok(((v - I64Min) % Pow2(I64Bits)) + I64Min)

\* The same for an unsigned operation of the given width.
UIntOp(v, bits, oc) ==
    IF v >= 0 /\ v < Pow2(bits) THEN Ok(v)
    ELSE IF oc THEN Panic
    ELSE Ok(v % Pow2(bits))

\* i64::abs: overflows on i64::MIN only.
AbsI64(v, oc) == I64Op(IF v < 0 THEN -v ELSE v, oc)

\* a.abs() for a the outcome of a subtraction.
AbsOf(r, oc) == IF r.kind = "panic" THEN Panic ELSE AbsI64(r.val, oc)

\* a + b on i64 for a, b outcomes of earlier operations.
AddI64(a, b, oc) ==
    IF a.kind = "panic" \/ b.kind = "panic" THEN Panic
    ELSE I64Op(a.val + b.val, oc)

\* TryInto<u16> for i64 followed by unwrap(): panics in every build when the
\* value is negative or above u16::MAX.
TryIntoU16Unwrap(r) ==
    IF r.kind = "panic" THEN Panic
    ELSE IF r.val >= 0 /\ r.val <= U16Max THEN Ok(r.val)
    ELSE Panic

---------------------------------------------------------------------------
(* Geometry *)

Coord(x, y, z) == [x |-> x, y |-> y, z |-> z]

\* Coordinates::distance
distance(self, other, oc) ==
    LET dx == AbsOf(I64Op(self.x - other.x, oc), oc)
        dy == AbsOf(I64Op(self.y - other.y, oc), oc)
        dz == AbsOf(I64Op(self.z - other.z, oc), oc)
        sum == AddI64(AddI64(dx, dy, oc), dz, oc)
    IN  TryIntoU16Unwrap(sum)

\* check_bounds with the comparisons made inclusive: the bounds themselves
\* are rejected.
check_bounds_exclusive(cfg, coords, oc) ==
    LET min_coordinate_value == I64Op(-cfg.max_coordinate_value, oc)
    IN  IF min_coordinate_value.kind = "panic" THEN Panic
        ELSE IF \E c \in {coords.x, coords.y, coords.z} :
                    c <= min_coordinate_value.val \/ c >= cfg.max_coordinate_value
             THEN Err
             ELSE Ok(0)

\* Config::check_bounds
check_bounds(cfg, coords, oc) ==
    LET min_coordinate_value == I64Op(-cfg.max_coordinate_value, oc)
    IN  IF min_coordinate_value.kind = "panic" THEN Panic
        ELSE IF \E c \in {coords.x, coords.y, coords.z} :
                    c < min_coordinate_value.val \/ c > cfg.max_coordinate_value
             THEN Err
             ELSE Ok(0)

---------------------------------------------------------------------------
(* Economics *)

\* Config::get_move_fee
get_move_fee(cfg, start, end, oc) ==
    LET d == distance(start, end, oc)
        prod == IF d.kind = "panic" THEN Panic
                ELSE UIntOp(cfg.move_fee_per_step * d.val, U128Bits, oc)
        move_fee_amount ==
            IF prod.kind = "panic" THEN Panic
            ELSE UIntOp(cfg.base_move_fee.amount + prod.val, U128Bits, oc)
    IN  IF move_fee_amount.kind = "panic" THEN Panic
        ELSE [kind |-> "ok", val |-> move_fee_amount.val,
              denom |-> cfg.base_move_fee.denom]

\* Config::get_move_nanos
get_move_nanos(cfg, start, end, oc) ==
    LET d == distance(start, end, oc)
        prod == IF d.kind = "panic" THEN Panic
                ELSE UIntOp(cfg.move_nanos_per_step * d.val, U64Bits, oc)
    IN  IF prod.kind = "panic" THEN Panic
        ELSE UIntOp(cfg.base_move_nanos + prod.val, U64Bits, oc)

---------------------------------------------------------------------------
(* Inputs of the geometry / economics specification *)

\* The economics parameters of a Config:
\* <<base_move_nanos, move_nanos_per_step, base_move_fee.amount, move_fee_per_step>>.
\* The first is the documented example; the last two sit at the top of the
\* u64 / u128 ranges.
EconomicsParams ==
    { <<1000, 500, 10, 2>>,
      <<0, 0, 0, 0>>,
      <<1, 3, 5, 7>>,
      <<U64Max, 1, U128Max, 1>>,
      <<0, U64Max, 0, U128Max>> }

Denoms == {"uluna", "uusd"}

\* max_coordinate_value: non-negative, as the Config's documentation has it
\* ("the minimum will be set to the negation of this value").
MaxCoordinateValues == {0, 1, 100, I64Max - 1, I64Max}

MkConfig(m, e, dn) ==
    [ public_minting_enabled |-> TRUE,
      max_coordinate_value |-> m,
      token_supply |-> 2,
      wallet_limit |-> 2,
      mint_fee |-> [amount |-> 1, denom |-> dn],
      base_move_nanos |-> e[1],
      move_nanos_per_step |-> e[2],
      base_move_fee |-> [amount |-> e[3], denom |-> dn],
      move_fee_per_step |-> e[4] ]

Configs ==
    { MkConfig(m, e, dn) : m \in MaxCoordinateValues, e \in EconomicsParams,
                           dn \in Denoms }

InI64(v) == v >= I64Min /\ v <= I64Max

\* Axis values handed to check_bounds: the configured bounds, their outer
\* neighbours, and the ends of the i64 range.
AxisValues(m) ==
    { v \in {-m - 1, -m, -1, 0, 1, m, m + 1, I64Min, I64Max} : InI64(v) }

BoundsInputs(m) ==
    { Coord(x, y, z) : x \in AxisValues(m), y \in AxisValues(m),
                       z \in AxisValues(m) }

\* Endpoints of moves: near the origin, at the u16 limit of distance, and at
\* the ends of the i64 range.
MoveCoords ==
    { Coord(0, 0, 0), Coord(3, 1, 0), Coord(1, 0, 0), Coord(0, -1, 1),
      Coord(U16Max, 0, 0), Coord(U16Max, 1, 0), Coord(100, 100, 100),
      Coord(I64Max, 0, 0), Coord(-I64Max, 0, 0), Coord(I64Min, 0, 0),
      Coord(I64Max, I64Max, I64Max), Coord(-I64Max, -I64Max, -I64Max) }

NoCall == [fn |-> "none", start |-> Coord(0, 0, 0), end |-> Coord(0, 0, 0),
           res |-> NoResult]

NoMsg == [variant |-> "none", fields |-> [none |-> TRUE]]
NoOut == [kind |-> "none", variant |-> "none", fields |-> [none |-> TRUE]]
NoResponse == [cmd |-> "none", token_id |-> 0, coordinates |-> Coord(0, 0, 0),
               result |-> "none"]

---------------------------------------------------------------------------
(* Specification of the geometry and economics methods: a behaviour is one  *)
(* invocation of one method, on a Config and arguments drawn from the sets *)
(* above (the methods are pure: a second invocation sees the same Config). *)

Init ==
    /\ config \in Configs
    /\ overflow_checks \in BOOLEAN
    /\ call = NoCall
    /\ exec_msg = NoMsg
    /\ exec_out = NoOut
    /\ query_msg = NoMsg
    /\ query_out = NoOut
    /\ tokens = << >>
    /\ now = 0
    /\ response = NoResponse

Call_distance ==
    /\ call.fn = "none"
    /\ \E a \in MoveCoords, b \in MoveCoords :
          call' = [fn |-> "distance", start |-> a, end |-> b,
                   res |-> distance(a, b, overflow_checks)]
    /\ UNCHANGED <<config, overflow_checks, exec_msg, exec_out, query_msg,
                   query_out, tokens, now, response>>

Call_get_move_fee ==
    /\ call.fn = "none"
    /\ \E a \in MoveCoords, b \in MoveCoords :
          call' = [fn |-> "get_move_fee", start |-> a, end |-> b,
                   res |-> get_move_fee(config, a, b, overflow_checks)]
    /\ UNCHANGED <<config, overflow_checks, exec_msg, exec_out, query_msg,
                   query_out, tokens, now, response>>

Call_get_move_nanos ==
    /\ call.fn = "none"
    /\ \E a \in MoveCoords, b \in MoveCoords :
          call' = [fn |-> "get_move_nanos", start |-> a, end |-> b,
                   res |-> get_move_nanos(config, a, b, overflow_checks)]
    /\ UNCHANGED <<config, overflow_checks, exec_msg, exec_out, query_msg,
                   query_out, tokens, now, response>>

Call_check_bounds ==
    /\ call.fn = "none"
    /\ \E c \in BoundsInputs(config.max_coordinate_value) :
          call' = [fn |-> "check_bounds", start |-> c, end |-> c,
                   res |-> check_bounds(config, c, overflow_checks)]
    /\ UNCHANGED <<config, overflow_checks, exec_msg, exec_out, query_msg,
                   query_out, tokens, now, response>>

Next ==
    \/ Call_distance
    \/ Call_get_move_fee
    \/ Call_get_move_nanos
    \/ Call_check_bounds

Spec == Init /\ [][Next]_vars

---------------------------------------------------------------------------
(* Properties of the geometry and economics methods.  Abs, Manhattan and   *)
(* the Exact... operators are the mathematical values over the unbounded   *)
(* integers the results are compared with.                                 *)

Abs(v) == IF v < 0 THEN -v ELSE v

Manhattan(a, b) == Abs(a.x - b.x) + Abs(a.y - b.y) + Abs(a.z - b.z)

ExactMoveFee(cfg, a, b) ==
    cfg.base_move_fee.amount + cfg.move_fee_per_step * Manhattan(a, b)

ExactMoveNanos(cfg, a, b) ==
    cfg.base_move_nanos + cfg.move_nanos_per_step * Manhattan(a, b)

WithinBounds(cfg, c) ==
    \A v \in {c.x, c.y, c.z} :
        -cfg.max_coordinate_value <= v /\ v <= cfg.max_coordinate_value

\* C1: check_bounds returns Ok exactly when every axis lies in the closed
\* interval [-max_coordinate_value, max_coordinate_value], and an error
\* otherwise.
C1_CheckBoundsClosedInterval ==
    call.fn = "check_bounds" =>
        /\ call.res.kind \in {"ok", "err"}
        /\ call.res.kind = "ok" <=> WithinBounds(config, call.start)

\* C1 witness: with max_coordinate_value = 100, (101, 0, 0) has been rejected.
C1_Witness ==
    /\ call.fn = "check_bounds"
    /\ config.max_coordinate_value = 100
    /\ call.start = Coord(101, 0, 0)
    /\ call.res.kind = "err"

\* C2: whenever get_move_fee returns, the coin's amount is
\* base_move_fee.amount + move_fee_per_step * distance(start, end) and its
\* denom is base_move_fee.denom.
C2_MoveFeeExact ==
    (call.fn = "get_move_fee" /\ call.res.kind = "ok") =>
        /\ call.res.val = ExactMoveFee(config, call.start, call.end)
        /\ call.res.denom = config.base_move_fee.denom

\* C3: whenever get_move_nanos returns, the result is
\* base_move_nanos + move_nanos_per_step * distance(start, end).
C3_MoveNanosExact ==
    (call.fn = "get_move_nanos" /\ call.res.kind = "ok") =>
        call.res.val = ExactMoveNanos(config, call.start, call.end)

\* C4: whenever distance(a, b) returns, the result is the Manhattan distance
\* |a.x-b.x| + |a.y-b.y| + |a.z-b.z|, it is the result of distance(b, a), and
\* it is 0 when a = b.
C4_DistanceManhattan ==
    (call.fn = "distance" /\ call.res.kind = "ok") =>
        /\ call.res.val = Manhattan(call.start, call.end)
        /\ call.res = distance(call.end, call.start, overflow_checks)
        /\ (call.start = call.end => call.res.val = 0)

\* C9: for two coordinates that pass check_bounds, distance, get_move_fee and
\* get_move_nanos either return the exact mathematical value or fail; none
\* returns a value that has wrapped modulo its integer width.
C9_NoSilentWrap ==
    ( /\ call.fn \in {"distance", "get_move_fee", "get_move_nanos"}
      /\ check_bounds(config, call.start, overflow_checks).kind = "ok"
      /\ check_bounds(config, call.end, overflow_checks).kind = "ok"
      /\ call.res.kind = "ok" ) =>
        call.res.val =
            CASE call.fn = "distance" -> Manhattan(call.start, call.end)
              [] call.fn = "get_move_fee" ->
                    ExactMoveFee(config, call.start, call.end)
              [] call.fn = "get_move_nanos" ->
                    ExactMoveNanos(config, call.start, call.end)

\* C10: for a fixed Config, a move whose distance is not larger than another
\* move's has a fee and a duration that are not larger than the other's.
C10_FeeAndNanosMonotone ==
    (call.fn \in {"get_move_fee", "get_move_nanos"} /\ call.res.kind = "ok") =>
        \A s2 \in MoveCoords, e2 \in MoveCoords :
            LET d1 == distance(call.start, call.end, overflow_checks)
                d2 == distance(s2, e2, overflow_checks)
                r2 == IF call.fn = "get_move_fee"
                      THEN get_move_fee(config, s2, e2, overflow_checks)
                      ELSE get_move_nanos(config, s2, e2, overflow_checks)
            IN  (d2.kind = "ok" /\ r2.kind = "ok" /\ d1.val <= d2.val) =>
                    call.res.val <= r2.val

---------------------------------------------------------------------------
(* Protocol adapter: ExecuteMsg / QueryMsg and their conversions.  A       *)
(* message is its variant's name and the record of its fields.             *)

Addrs == {"alice", "bob"}
TokenIds == {"1", "2"}
Binaries == {"", "AQ=="}
\* Option<Expiration>
Expirations == {"None", "Some(AtHeight(1))", "Some(Never)"}
\* Option<String> start_after, Option<u32> limit, Option<bool> include_expired
StartAfters == {"None", "Some(1)"}
Limits == {"None", "Some(0)", "Some(10)"}
IncludeExpireds == {"None", "Some(false)", "Some(true)"}
MsgCoords == {Coord(0, 0, 0), Coord(3, 1, 0)}

Msg(v, f) == [variant |-> v, fields |-> f]

\* enum ExecuteMsg
ExecuteMsgs ==
    { Msg("Mint", [coordinates |-> c, captcha_signature |-> g]) :
          c \in MsgCoords, g \in Binaries }
    \cup { Msg("Move", [token_id |-> t, coordinates |-> c]) :
          t \in TokenIds, c \in MsgCoords }
    \cup { Msg("UpdateConfig", [config |-> MkConfig(1, <<1000, 500, 10, 2>>, dn)]) :
          dn \in Denoms }
    \cup { Msg("UpdateCaptchaPublicKey", [public_key |-> g]) : g \in Binaries }
    \cup { Msg("Withdraw", [amount |-> a]) :
          a \in { << >>, << [amount |-> 1, denom |-> "uluna"] >> } }
    \cup { Msg("TransferNft", [recipient |-> r, token_id |-> t]) :
          r \in Addrs, t \in TokenIds }
    \cup { Msg("SendNft", [contract |-> r, token_id |-> t, msg |-> b]) :
          r \in Addrs, t \in TokenIds, b \in Binaries }
    \cup { Msg("Approve", [spender |-> r, token_id |-> t, expires |-> e]) :
          r \in Addrs, t \in TokenIds, e \in Expirations }
    \cup { Msg("Revoke", [spender |-> r, token_id |-> t]) :
          r \in Addrs, t \in TokenIds }
    \cup { Msg("ApproveAll", [operator |-> r, expires |-> e]) :
          r \in Addrs, e \in Expirations }
    \cup { Msg("RevokeAll", [operator |-> r]) : r \in Addrs }

\* enum QueryMsg
QueryMsgs ==
    { Msg("Config", [empty |-> TRUE]), Msg("CaptchaPublicKey", [empty |-> TRUE]),
      Msg("NumTokens", [empty |-> TRUE]), Msg("ContractInfo", [empty |-> TRUE]) }
    \cup { Msg(v, [owner |-> o, start_after |-> a, limit |-> l]) :
          v \in {"XyzTokens", "Tokens"}, o \in Addrs, a \in StartAfters,
          l \in Limits }
    \cup { Msg(v, [start_after |-> a, limit |-> l]) :
          v \in {"AllXyzTokens", "AllTokens"}, a \in StartAfters, l \in Limits }
    \cup { Msg(v, [token_id |-> t]) : v \in {"XyzNftInfo", "NftInfo"}, t \in TokenIds }
    \cup { Msg("XyzNftInfoByCoords", [coordinates |-> c]) : c \in MsgCoords }
    \cup { Msg("NumTokensForOwner", [owner |-> o]) : o \in Addrs }
    \cup { Msg("MoveParams", [token_id |-> t, coordinates |-> c]) :
          t \in TokenIds, c \in MsgCoords }
    \cup { Msg(v, [token_id |-> t, include_expired |-> i]) :
          v \in {"OwnerOf", "AllNftInfo"}, t \in TokenIds, i \in IncludeExpireds }
    \cup { Msg("ApprovedForAll", [owner |-> o, include_expired |-> i,
                                  start_after |-> a, limit |-> l]) :
          o \in Addrs, i \in IncludeExpireds, a \in StartAfters, l \in Limits }

Converted(v, f) == [kind |-> "ok", variant |-> v, fields |-> f]
\* panic!("cannot covert {:?} to ...", msg)
ConvertPanic(msg) == [kind |-> "panic", variant |-> msg.variant, fields |-> msg.fields]

\* From<ExecuteMsg> with Approve's spender and token_id exchanged.
From_ExecuteMsg_swapped(msg) ==
    LET f == msg.fields
    IN  CASE msg.variant = "TransferNft" ->
                Converted("TransferNft",
                          [recipient |-> f.recipient, token_id |-> f.token_id])
          [] msg.variant = "SendNft" ->
                Converted("SendNft", [contract |-> f.contract,
                                      token_id |-> f.token_id, msg |-> f.msg])
          [] msg.variant = "Approve" ->
                Converted("Approve", [spender |-> f.token_id,
                                      token_id |-> f.spender, expires |-> f.expires])
          [] msg.variant = "Revoke" ->
                Converted("Revoke", [spender |-> f.spender, token_id |-> f.token_id])
          [] msg.variant = "ApproveAll" ->
                Converted("ApproveAll", [operator |-> f.operator, expires |-> f.expires])
          [] msg.variant = "RevokeAll" ->
                Converted("RevokeAll", [operator |-> f.operator])
          [] OTHER -> ConvertPanic(msg)

\* impl From<ExecuteMsg> for CW721ExecuteMsg<XyzExtension>
From_ExecuteMsg(msg) ==
    LET f == msg.fields
    IN  CASE msg.variant = "TransferNft" ->
                Converted("TransferNft",
                          [recipient |-> f.recipient, token_id |-> f.token_id])
          [] msg.variant = "SendNft" ->
                Converted("SendNft", [contract |-> f.contract,
                                      token_id |-> f.token_id, msg |-> f.msg])
          [] msg.variant = "Approve" ->
                Converted("Approve", [spender |-> f.spender,
                                      token_id |-> f.token_id, expires |-> f.expires])
          [] msg.variant = "Revoke" ->
                Converted("Revoke", [spender |-> f.spender, token_id |-> f.token_id])
          [] msg.variant = "ApproveAll" ->
                Converted("ApproveAll", [operator |-> f.operator, expires |-> f.expires])
          [] msg.variant = "RevokeAll" ->
                Converted("RevokeAll", [operator |-> f.operator])
          [] OTHER -> ConvertPanic(msg)

\* From<QueryMsg> with XyzTokens translated without its pagination limit.
From_QueryMsg_nolimit(msg) ==
    LET f == msg.fields
    IN  CASE msg.variant = "XyzTokens" ->
                Converted("Tokens", [owner |-> f.owner,
                                     start_after |-> f.start_after, limit |-> "None"])
          [] msg.variant = "AllXyzTokens" ->
                Converted("AllTokens", [start_after |-> f.start_after, limit |-> f.limit])
          [] msg.variant = "XyzNftInfo" ->
                Converted("NftInfo", [token_id |-> f.token_id])
          [] msg.variant = "OwnerOf" ->
                Converted("OwnerOf", [token_id |-> f.token_id,
                                      include_expired |-> f.include_expired])
          [] msg.variant = "ApprovedForAll" ->
                Converted("ApprovedForAll",
                          [owner |-> f.owner, include_expired |-> f.include_expired,
                           start_after |-> f.start_after, limit |-> f.limit])
          [] msg.variant = "NumTokens" -> Converted("NumTokens", [empty |-> TRUE])
          [] msg.variant = "ContractInfo" -> Converted("ContractInfo", [empty |-> TRUE])
          [] msg.variant = "NftInfo" ->
                Converted("NftInfo", [token_id |-> f.token_id])
          [] msg.variant = "AllNftInfo" ->
                Converted("AllNftInfo", [token_id |-> f.token_id,
                                         include_expired |-> f.include_expired])
          [] msg.variant = "Tokens" ->
                Converted("Tokens", [owner |-> f.owner,
                                     start_after |-> f.start_after, limit |-> f.limit])
          [] msg.variant = "AllTokens" ->
                Converted("AllTokens", [start_after |-> f.start_after, limit |-> f.limit])
          [] OTHER -> ConvertPanic(msg)

\* impl From<QueryMsg> for CW721QueryMsg
From_QueryMsg(msg) ==
    LET f == msg.fields
    IN  CASE msg.variant = "XyzTokens" ->
                Converted("Tokens", [owner |-> f.owner,
                                     start_after |-> f.start_after, limit |-> f.limit])
          [] msg.variant = "AllXyzTokens" ->
                Converted("AllTokens", [start_after |-> f.start_after, limit |-> f.limit])
          [] msg.variant = "XyzNftInfo" ->
                Converted("NftInfo", [token_id |-> f.token_id])
          [] msg.variant = "OwnerOf" ->
                Converted("OwnerOf", [token_id |-> f.token_id,
                                      include_expired |-> f.include_expired])
          [] msg.variant = "ApprovedForAll" ->
                Converted("ApprovedForAll",
                          [owner |-> f.owner, include_expired |-> f.include_expired,
                           start_after |-> f.start_after, limit |-> f.limit])
          [] msg.variant = "NumTokens" -> Converted("NumTokens", [empty |-> TRUE])
          [] msg.variant = "ContractInfo" -> Converted("ContractInfo", [empty |-> TRUE])
          [] msg.variant = "NftInfo" ->
                Converted("NftInfo", [token_id |-> f.token_id])
          [] msg.variant = "AllNftInfo" ->
                Converted("AllNftInfo", [token_id |-> f.token_id,
                                         include_expired |-> f.include_expired])
          [] msg.variant = "Tokens" ->
                Converted("Tokens", [owner |-> f.owner,
                                     start_after |-> f.start_after, limit |-> f.limit])
          [] msg.variant = "AllTokens" ->
                Converted("AllTokens", [start_after |-> f.start_after, limit |-> f.limit])
          [] OTHER -> ConvertPanic(msg)

\* One conversion of a command: msg.into()
Convert_ExecuteMsg ==
    /\ \E m \in ExecuteMsgs :
          /\ exec_msg' = m
          /\ exec_out' = From_ExecuteMsg(m)
    /\ UNCHANGED <<config, overflow_checks, call, query_msg, query_out, tokens,
                   now, response>>

\* One conversion of a query: msg.into()
Convert_QueryMsg ==
    /\ \E m \in QueryMsgs :
          /\ query_msg' = m
          /\ query_out' = From_QueryMsg(m)
    /\ UNCHANGED <<config, overflow_checks, call, exec_msg, exec_out, tokens,
                   now, response>>

InitAdapter ==
    /\ config = MkConfig(1, <<1000, 500, 10, 2>>, "uluna")
    /\ overflow_checks \in BOOLEAN
    /\ call = NoCall
    /\ exec_msg = NoMsg
    /\ exec_out = NoOut
    /\ query_msg = NoMsg
    /\ query_out = NoOut
    /\ tokens = << >>
    /\ now = 0
    /\ response = NoResponse

NextAdapter ==
    \/ Convert_ExecuteMsg
    \/ Convert_QueryMsg

SpecAdapter == InitAdapter /\ [][NextAdapter]_vars

---------------------------------------------------------------------------
(* Properties of the protocol adapter *)

SharedExecuteVariants ==
    {"TransferNft", "SendNft", "Approve", "Revoke", "ApproveAll", "RevokeAll"}

SharedQueryVariants ==
    {"OwnerOf", "ApprovedForAll", "NumTokens", "ContractInfo", "NftInfo",
     "AllNftInfo", "Tokens", "AllTokens"}

\* The base variant a renamed query variant is translated into.
RenamedQueryVariant(v) ==
    CASE v = "XyzTokens" -> "Tokens"
      [] v = "AllXyzTokens" -> "AllTokens"
      [] v = "XyzNftInfo" -> "NftInfo"

\* C6: a shared ExecuteMsg variant converts into the base variant of the same
\* name with every field equal, and no other shared-variant message converts
\* into the same base message.
C6_ExecuteConversionLossless ==
    exec_msg.variant \in SharedExecuteVariants =>
        /\ exec_out.kind = "ok"
        /\ exec_out.variant = exec_msg.variant
        /\ exec_out.fields = exec_msg.fields
        /\ \A m2 \in ExecuteMsgs :
              (m2.variant \in SharedExecuteVariants /\ m2 # exec_msg) =>
                  From_ExecuteMsg(m2) # exec_out

\* C6 witness: an Approve with an expiration has been converted.
C6_Witness ==
    /\ exec_msg.variant = "Approve"
    /\ exec_msg.fields.expires = "Some(AtHeight(1))"
    /\ exec_out.kind = "ok"

\* C7: a shared QueryMsg variant converts into the base variant of the same
\* name with every field equal; XyzTokens, AllXyzTokens and XyzNftInfo convert
\* into Tokens, AllTokens and NftInfo with the same fields.
C7_QueryConversionFieldForField ==
    /\ query_msg.variant \in SharedQueryVariants =>
          /\ query_out.kind = "ok"
          /\ query_out.variant = query_msg.variant
          /\ query_out.fields = query_msg.fields
    /\ query_msg.variant \in {"XyzTokens", "AllXyzTokens", "XyzNftInfo"} =>
          /\ query_out.kind = "ok"
          /\ query_out.variant = RenamedQueryVariant(query_msg.variant)
          /\ query_out.fields = query_msg.fields

\* C7 witness: an XyzTokens query with a limit has been converted to Tokens.
C7_Witness ==
    /\ query_msg.variant = "XyzTokens"
    /\ query_msg.fields.limit = "Some(10)"
    /\ query_out.variant = "Tokens"

\* C8: no ExecuteMsg or QueryMsg drives its conversion into a panic.
C8_ConversionNeverPanics ==
    /\ exec_out.kind # "panic"
    /\ query_out.kind # "panic"

---------------------------------------------------------------------------
(* Movement state machine: the Mint and Move commands over the tokens'     *)
(* XyzExtension records.  Each command applies in whole or is rejected     *)
(* with no mutation; the host supplies the sender, the funds and the time. *)
(* The supply and wallet capacities are enforced outside this lifecycle.   *)

\* The last block time the host reaches.
MaxTime == 1

ContractOwner == "owner"
Senders == {ContractOwner, "alice"}

RegistryConfig(public) ==
    [ MkConfig(1, <<1, 1, 1, 1>>, "uluna") EXCEPT
        !.public_minting_enabled = public ]

\* Destinations of Mint and Move: two positions of the grid and one
\* outside it.
RegistryCoords ==
    { Coord(0, 0, 0), Coord(1, 0, 0), Coord(2, 0, 0) }

RegistryFunds ==
    { [amount |-> 0, denom |-> "uluna"], [amount |-> 4, denom |-> "uluna"],
      [amount |-> 4, denom |-> "uusd"] }

\* Option<Coordinates>
NoneCoordinates == [is_some |-> FALSE, value |-> Coord(0, 0, 0)]
SomeCoordinates(c) == [is_some |-> TRUE, value |-> c]

\* struct XyzExtension
XyzExtension(c, prev, t) ==
    [coordinates |-> c, prev_coordinates |-> prev, arrival |-> t]

TokenIdsInUse == 1..Len(tokens)

\* The tokens, other than token `except`, that hold position c.
Holders(c, except) ==
    { t \in TokenIdsInUse : t # except /\ tokens[t].extension.coordinates = c }

\* Occupied with the position index never consulted.
Occupied_never(c, except) == FALSE

\* Whether position c is held by a token other than `except`.
Occupied(c, except) == Holders(c, except) # {}

\* Payment of `fee` (a Coin) by `funds`.
PaymentResult(funds, fee) ==
    IF funds.denom # fee.denom THEN "WrongDenomination"
    ELSE IF funds.amount < fee.amount THEN "InsufficientPayment"
    ELSE "Ok"

MintResult(sender, coords, funds) ==
    LET bounds == check_bounds(config, coords, overflow_checks)
    IN  IF bounds.kind = "panic" THEN "Panic"
        ELSE IF bounds.kind = "err" THEN "OutOfBounds"
        ELSE IF Occupied(coords, 0) THEN "PositionOccupied"
        ELSE IF ~config.public_minting_enabled /\ sender # ContractOwner
             THEN "Unauthorized"
        ELSE IF sender # ContractOwner
             THEN PaymentResult(funds, config.mint_fee)
        ELSE "Ok"

\* Mint{coordinates, ..} by `sender`: a new idle token at the destination.
ExecuteMint ==
    /\ \E sender \in Senders, coords \in RegistryCoords, funds \in RegistryFunds :
          LET result == MintResult(sender, coords, funds)
          IN  /\ response' = [cmd |-> "Mint", token_id |-> Len(tokens) + 1,
                              coordinates |-> coords, result |-> result]
              /\ tokens' =
                    IF result = "Ok"
                    THEN Append(tokens,
                                [owner |-> sender,
                                 extension |-> XyzExtension(coords, NoneCoordinates, now)])
                    ELSE tokens
    /\ UNCHANGED <<config, overflow_checks, call, exec_msg, exec_out, query_msg,
                   query_out, now>>

MoveResult(sender, token_id, coords, funds) ==
    IF token_id \notin TokenIdsInUse THEN "NotFound"
    ELSE IF tokens[token_id].owner # sender THEN "Unauthorized"
    ELSE
        LET current == tokens[token_id].extension.coordinates
            bounds == check_bounds(config, coords, overflow_checks)
            fee == get_move_fee(config, current, coords, overflow_checks)
            nanos == get_move_nanos(config, current, coords, overflow_checks)
        IN  IF bounds.kind = "panic" THEN "Panic"
            ELSE IF bounds.kind = "err" THEN "OutOfBounds"
            ELSE IF Occupied(coords, token_id) THEN "PositionOccupied"
            ELSE IF fee.kind = "panic" \/ nanos.kind = "panic" THEN "Panic"
            ELSE PaymentResult(funds, [amount |-> fee.val, denom |-> fee.denom])

\* Move{token_id, coordinates} by `sender`: the token leaves for the
\* destination and arrives after get_move_nanos.
ExecuteMove ==
    /\ \E sender \in Senders, token_id \in 1..(Len(tokens) + 1),
          coords \in RegistryCoords, funds \in RegistryFunds :
          LET result == MoveResult(sender, token_id, coords, funds)
          IN  /\ response' = [cmd |-> "Move", token_id |-> token_id,
                              coordinates |-> coords, result |-> result]
              /\ tokens' =
                    IF result = "Ok"
                    THEN LET current == tokens[token_id].extension.coordinates
                             nanos == get_move_nanos(config, current, coords,
                                                     overflow_checks)
                         IN  [tokens EXCEPT ![token_id].extension =
                                 XyzExtension(coords, SomeCoordinates(current),
                                              now + nanos.val)]
                    ELSE tokens
    /\ UNCHANGED <<config, overflow_checks, call, exec_msg, exec_out, query_msg,
                   query_out, now>>

\* The host's clock advances between commands.
Tick ==
    /\ now < MaxTime
    /\ now' = now + 1
    /\ UNCHANGED <<config, overflow_checks, call, exec_msg, exec_out, query_msg,
                   query_out, tokens, response>>

\* The registry's values stay far from the ends of the integer ranges, where
\* both build profiles compute the same results.
InitRegistry ==
    /\ \E public \in BOOLEAN : config = RegistryConfig(public)
    /\ overflow_checks = TRUE
    /\ call = NoCall
    /\ exec_msg = NoMsg
    /\ exec_out = NoOut
    /\ query_msg = NoMsg
    /\ query_out = NoOut
    /\ tokens = << >>
    /\ now = 0
    /\ response = NoResponse

NextRegistry ==
    \/ ExecuteMint
    \/ ExecuteMove
    \/ Tick

SpecRegistry == InitRegistry /\ [][NextRegistry]_vars

\* C5: no two distinct tokens hold equal coordinates, and a Mint or Move
\* whose destination is held by another token is rejected and leaves every
\* token's coordinates, prev_coordinates and arrival unchanged.
C5_PositionsUnique ==
    [][ /\ \A t1 \in 1..Len(tokens'), t2 \in 1..Len(tokens') :
              tokens'[t1].extension.coordinates = tokens'[t2].extension.coordinates
                  => t1 = t2
        /\ ( /\ response' # response \/ tokens' # tokens
             /\ response'.cmd \in {"Mint", "Move"}
             /\ Holders(response'.coordinates,
                        IF response'.cmd = "Move" THEN response'.token_id ELSE 0) # {} )
           => ( response'.result # "Ok" /\ tokens' = tokens ) ]_vars

\* C5 witness: with two tokens in place, a command aimed at a held position
\* has been rejected as PositionOccupied.
C5_Witness ==
    /\ Len(tokens) = 2
    /\ response.result = "PositionOccupied"
    /\ \E t \in TokenIdsInUse : tokens[t].extension.prev_coordinates.is_some

====
